---- MODULE Spec2Model ----
(***************************************************************************)
(* Model of the SpreadsheetOCR React component                             *)
(* (src/src/app/components/SpreadsheetOCR.js).                             *)
(*                                                                         *)
(* A JavaScript string is a sequence of one-character strings, so that     *)
(* split, trim, toLowerCase, replace, join and JSON.stringify are computed *)
(* character by character.  A JavaScript object is the sequence of its own *)
(* [key, value] entries in the order Object.keys enumerates them.          *)
(***************************************************************************)
EXTENDS Integers, Sequences, FiniteSets, TLC

VARIABLES isProcessing, error, extractedData, progress,
          pc, inflight, text, mapped, err, crashed, csv, exported

vars == <<isProcessing, error, extractedData, progress,
          pc, inflight, text, mapped, err, crashed, csv, exported>>

(***************************************************************************)
(* Bounds of the model.                                                    *)
(***************************************************************************)
\* longest recognized text that is enumerated exhaustively over Alphabet
MaxLen == 5

\* the characters the exhaustive texts are made of: a letter, a digit, the
\* comma, the space and the line break
Alphabet == {"A", "1", ",", " ", "\n"}

\* further recognized texts, longer or with other characters, checked in
\* addition to the exhaustive ones.  The character whitelist handed to
\* setParameters is a request to the engine; the component takes the text
\* as the engine returns it, so the double quote and the tab occur here.
ExtraTexts ==
    { <<"A","\n","\"">>,
      <<"A"," ","B","\n","A",",","B"," ","3","\"">>,
      <<"_","_","P","R","O","T","O","_","_"," ","B","\n","x"," ","y">>,
      <<"_","_","p","r","o","t","o","_","_","\n","x">>,
      <<"A"," ","A","\n","A","\n","A"," ","1">>,
      <<"A"," ","a","\n","x"," ","y","\n","\n","z">>,
      <<"1","0"," ","B"," ","2","\n","x"," ","y"," ","z"," ","w">>,
      <<"\t","B","\r","\n"," ","\n","3","\"","\t","y">>,
      <<"A"," ","B"," ","A","\n","x","\n","p"," ","q"," ","r"," ","s">>,
      <<"A"," ","B","\n","x","\n","p"," ","q"," ","r">>,
      <<"A"," ","A","\n","x"," ","y","\n","z","\n","u"," ","v">> }

Texts == (UNION {[1..n -> Alphabet] : n \in 0..MaxLen}) \cup ExtraTexts

\* the percentages a progress message may carry (Math.round(m.progress * 100))
ProgressValues == {50, 100}

\* what handleFileUpload may find in event.target.files[0]: nothing, a file
\* whose type is not an image type, an image file
Files == {"none", "text/plain", "image/png"}

(***************************************************************************)
(* Values of the React state.                                              *)
(***************************************************************************)
Null == [isNull |-> TRUE, v |-> <<>>]
Some(x) == [isNull |-> FALSE, v |-> x]

NoError == ""
UploadError == "Please upload an image file"
GenericError == "Error processing image. Please try again."

(***************************************************************************)
(* JavaScript strings.                                                     *)
(***************************************************************************)
\* the characters \s and String.prototype.trim treat as white space
IsWhitespace(c) == c \in {" ", "\t", "\n", "\r"}

\* String.prototype.trim
Trim(s) ==
    IF \A i \in 1..Len(s) : IsWhitespace(s[i]) THEN <<>>
    ELSE LET a == CHOOSE i \in 1..Len(s) :
                    /\ ~IsWhitespace(s[i])
                    /\ \A j \in 1..(i-1) : IsWhitespace(s[j])
             b == CHOOSE i \in 1..Len(s) :
                    /\ ~IsWhitespace(s[i])
                    /\ \A j \in (i+1)..Len(s) : IsWhitespace(s[j])
         IN  SubSeq(s, a, b)

\* String.prototype.split with a one-character separator
RECURSIVE SplitChar(_, _)
SplitChar(s, sep) ==
    IF \A i \in 1..Len(s) : s[i] # sep THEN <<s>>
    ELSE LET i == CHOOSE i \in 1..Len(s) :
                    /\ s[i] = sep
                    /\ \A j \in 1..(i-1) : s[j] # sep
         IN  <<SubSeq(s, 1, i-1)>> \o SplitChar(SubSeq(s, i+1, Len(s)), sep)

\* String.prototype.split(/\s+/): the separators are the maximal runs of
\* white space; a leading or trailing run leaves an empty string
RECURSIVE SplitWhitespace(_)
SplitWhitespace(s) ==
    IF \A i \in 1..Len(s) : ~IsWhitespace(s[i]) THEN <<s>>
    ELSE LET i == CHOOSE i \in 1..Len(s) :
                    /\ IsWhitespace(s[i])
                    /\ \A j \in 1..(i-1) : ~IsWhitespace(s[j])
             k == CHOOSE k \in i..Len(s) :
                    /\ \A j \in i..k : IsWhitespace(s[j])
                    /\ (k = Len(s) \/ ~IsWhitespace(s[k+1]))
         IN  <<SubSeq(s, 1, i-1)>> \o SplitWhitespace(SubSeq(s, k+1, Len(s)))

\* Array.prototype.join
RECURSIVE Join(_, _)
Join(parts, sep) ==
    IF Len(parts) = 0 THEN <<>>
    ELSE IF Len(parts) = 1 THEN parts[1]
    ELSE parts[1] \o sep \o Join(Tail(parts), sep)

UpperLetters == <<"A","B","C","D","E","F","G","H","I","J","K","L","M",
                  "N","O","P","Q","R","S","T","U","V","W","X","Y","Z">>
LowerLetters == <<"a","b","c","d","e","f","g","h","i","j","k","l","m",
                  "n","o","p","q","r","s","t","u","v","w","x","y","z">>

\* String.prototype.toLowerCase
ToLowerCase(s) ==
    [i \in 1..Len(s) |->
        IF \E n \in 1..Len(UpperLetters) : UpperLetters[n] = s[i]
        THEN LowerLetters[CHOOSE n \in 1..Len(UpperLetters) : UpperLetters[n] = s[i]]
        ELSE s[i]]

\* String.prototype.replace(/\s+/g, '_')
ReplaceWhitespace(s) == Join(SplitWhitespace(s), <<"_">>)

\* Array.prototype.filter(Boolean) on strings: the empty string is falsy
FilterBoolean(parts) == SelectSeq(parts, LAMBDA p : p # <<>>)

\* JSON.stringify of a string
JSONStringify(s) ==
    LET Escape(c) ==
            CASE c = "\"" -> <<"\\", "\"">>
              [] c = "\\" -> <<"\\", "\\">>
              [] c = "\n" -> <<"\\", "n">>
              [] c = "\r" -> <<"\\", "r">>
              [] c = "\t" -> <<"\\", "t">>
              [] OTHER    -> <<c>>
        RECURSIVE Body(_)
        Body(r) == IF r = <<>> THEN <<>> ELSE Escape(Head(r)) \o Body(Tail(r))
    IN  <<"\"">> \o Body(s) \o <<"\"">>

(***************************************************************************)
(* JavaScript objects with string keys, as processImage builds them.      *)
(***************************************************************************)
ProtoKey == <<"_","_","p","r","o","t","o","_","_">>

Digits == <<"0","1","2","3","4","5","6","7","8","9">>
IsDigit(c) == \E d \in 1..Len(Digits) : Digits[d] = c
DigitValue(c) == (CHOOSE d \in 1..Len(Digits) : Digits[d] = c) - 1

\* a < b for digit strings of one length, digit by digit
DigitsLess(a, b) ==
    \E i \in 1..Len(a) :
        /\ DigitValue(a[i]) < DigitValue(b[i])
        /\ \A j \in 1..(i-1) : a[j] = b[j]

\* a < b as numbers, for canonical numeric strings
IndexLess(a, b) ==
    \/ Len(a) < Len(b)
    \/ Len(a) = Len(b) /\ DigitsLess(a, b)

\* 2^32 - 1, the first number that is no integer index
IndexLimit == <<"4","2","9","4","9","6","7","2","9","5">>

\* an integer index key: a canonical numeric string below 2^32 - 1, which
\* Object.keys enumerates before the other keys, in ascending numeric order
IsArrayIndex(k) ==
    /\ Len(k) >= 1
    /\ \A i \in 1..Len(k) : IsDigit(k[i])
    /\ (Len(k) = 1 \/ k[1] # "0")
    /\ IndexLess(k, IndexLimit)

ObjectKeys(obj) == [i \in 1..Len(obj) |-> obj[i].key]
ObjectValues(obj) == [i \in 1..Len(obj) |-> obj[i].value]
HasOwn(obj, k) == \E i \in 1..Len(obj) : obj[i].key = k

\* obj[k] read as  obj[k] || ''  for a string-valued own property; a key
\* that is no own property reads as undefined, hence as ''
GetOrEmpty(obj, k) ==
    IF HasOwn(obj, k)
    THEN obj[CHOOSE i \in 1..Len(obj) : obj[i].key = k].value
    ELSE <<>>

\* obj[k] = v for a string v: an existing own property keeps its place, a
\* new integer index is placed among the indices, any other new key comes
\* last; the key __proto__ reaches the setter of Object.prototype, which
\* ignores a value that is no object, and no own property is created
SetProperty(obj, k, v) ==
    IF k = ProtoKey THEN obj
    ELSE IF HasOwn(obj, k)
    THEN [i \in 1..Len(obj) |-> IF obj[i].key = k THEN [key |-> k, value |-> v]
                                ELSE obj[i]]
    ELSE IF IsArrayIndex(k)
    THEN LET before == Cardinality({i \in 1..Len(obj) :
                           /\ IsArrayIndex(obj[i].key)
                           /\ IndexLess(obj[i].key, k)})
         IN  SubSeq(obj, 1, before) \o <<[key |-> k, value |-> v]>>
                \o SubSeq(obj, before + 1, Len(obj))
    ELSE Append(obj, [key |-> k, value |-> v])

(***************************************************************************)
(* processImage, lines 51-76: the table built from the recognized text.    *)
(***************************************************************************)
\* text.split('\n').filter((line) => line.trim())
Lines(t) == SelectSeq(SplitChar(t, "\n"), LAMBDA line : Trim(line) # <<>>)

\* lines[0] is undefined when there is no line, and .split then throws
HeaderThrows(t) == Lines(t) = <<>>

\* header.trim().toLowerCase().replace(/\s+/g, '_')
NormalizeHeader(header) == ReplaceWhitespace(ToLowerCase(Trim(header)))

\* lines[0].split(/\s+/).map(...).filter(Boolean)
Headers(t) ==
    LET parts == SplitWhitespace(Lines(t)[1])
    IN  FilterBoolean([i \in 1..Len(parts) |-> NormalizeHeader(parts[i])])

\* lines.slice(1).filter((line) => line.trim())
DataLines(t) == SelectSeq(Tail(Lines(t)), LAMBDA line : Trim(line) # <<>>)

\* line.split(/\s+/).filter(Boolean)
Values(line) == FilterBoolean(SplitWhitespace(line))

\* a variant that reads the cell one position to the right
CellValueShifted(values, index) ==
    IF index + 1 <= Len(values) THEN values[index + 1] ELSE <<>>

\* values[index] || ''   (index is the 1-based position here)
CellValue(values, index) ==
    IF index <= Len(values) THEN values[index] ELSE <<>>

\* headers.forEach((header, index) => { row[header] = values[index] || '' })
RECURSIVE ForEachHeader(_, _, _, _)
ForEachHeader(headers, values, index, row) ==
    IF index > Len(headers) THEN row
    ELSE ForEachHeader(headers, values, index + 1,
             SetProperty(row, headers[index], CellValue(values, index)))

Row(headers, line) == ForEachHeader(headers, Values(line), 1, <<>>)

\* lines.slice(1).filter(...).map((line) => {...})
MappedRows(t) ==
    LET headers == Headers(t)
        data == DataLines(t)
    IN  [n \in 1..Len(data) |-> Row(headers, data[n])]

\* a variant of the final filter that keeps every row
KeepEveryRow(row) == TRUE

\* (row) => Object.values(row).some((value) => value)
KeepRow(row) == \E i \in 1..Len(row) : ObjectValues(row)[i] # <<>>

\* processedData
ProcessedData(t) == SelectSeq(MappedRows(t), KeepRow)

(***************************************************************************)
(* exportToCSV, lines 104-112: the payload for a table with a first row.   *)
(***************************************************************************)
CsvHeaders(data) == ObjectKeys(data[1])

CsvHeaderLine(data) == Join(CsvHeaders(data), <<",">>)

CsvField(row, header) == JSONStringify(GetOrEmpty(row, header))

CsvRowLine(headers, row) ==
    Join([i \in 1..Len(headers) |-> CsvField(row, headers[i])], <<",">>)

CsvContent(data) ==
    LET headers == CsvHeaders(data)
    IN  Join(<<CsvHeaderLine(data)>> \o
             [n \in 1..Len(data) |-> CsvRowLine(headers, data[n])], <<"\n">>)

(***************************************************************************)
(* The component: its React state, the run of processImage that is in      *)
(* flight, and what the last run and the last export left behind.          *)
(*   isProcessing, error, extractedData, progress: the useState values     *)
(*   pc:        where the processImage call in flight is suspended         *)
(*   inflight:  the number of processImage calls that have not returned    *)
(*   text:      the text recognized by the current or last run             *)
(*   mapped:    the rows of the last table before the final filter         *)
(*   err:       the exception the last finished run caught ("" if none)    *)
(*   crashed:   rendering threw, the component is unmounted                *)
(*   csv:       the payload of the last download                           *)
(*   exported:  how the last exportToCSV call ended ("none" before any)    *)
(***************************************************************************)
Init ==
    /\ isProcessing = FALSE
    /\ error = NoError
    /\ extractedData = Null
    /\ progress = 0
    /\ pc = "idle"
    /\ inflight = 0
    /\ text = Null
    /\ mapped = <<>>
    /\ err = ""
    /\ crashed = FALSE
    /\ csv = Null
    /\ exported = "none"

\* the upload label is rendered: {!isProcessing && !extractedData && ...}
UploadRendered == ~crashed /\ ~isProcessing /\ extractedData.isNull

\* the export button is rendered: {extractedData && ...}
ExportRendered == ~crashed /\ ~extractedData.isNull

\* rendering a held table evaluates Object.keys(extractedData[0]), which
\* throws for an empty array
RenderThrows(data) == ~data.isNull /\ Len(data.v) = 0

\* file.type.includes('image/')
IsImageType(file) == file = "image/png"

\* a variant that does not clear the error message
ProcessImageStartKeepsError ==
    /\ isProcessing' = TRUE
    /\ pc' = "reading"
    /\ inflight' = inflight + 1
    /\ text' = Null
    /\ UNCHANGED <<error, extractedData, progress, mapped, err, crashed, csv, exported>>

\* processImage up to its first await: setIsProcessing(true); setError('')
ProcessImageStart ==
    /\ isProcessing' = TRUE
    /\ error' = NoError
    /\ pc' = "reading"
    /\ inflight' = inflight + 1
    /\ text' = Null
    /\ UNCHANGED <<extractedData, progress, mapped, err, crashed, csv, exported>>

\* handleFileUpload, reachable through the input of the upload label
HandleFileUpload ==
    /\ UploadRendered
    /\ \E file \in Files :
         IF file = "none" THEN UNCHANGED vars
         ELSE IF ~IsImageType(file)
         THEN /\ error' = UploadError
              /\ UNCHANGED <<isProcessing, extractedData, progress, pc, inflight,
                             text, mapped, err, crashed, csv, exported>>
         ELSE ProcessImageStart

\* the FileReader promise resolves (it has no reject path)
FileRead ==
    /\ pc = "reading"
    /\ pc' = "loading"
    /\ UNCHANGED <<isProcessing, error, extractedData, progress, inflight,
                   text, mapped, err, crashed, csv, exported>>

\* import, createWorker, loadLanguage, initialize, setParameters resolve
WorkerReady ==
    /\ pc = "loading"
    /\ pc' = "recognizing"
    /\ UNCHANGED <<isProcessing, error, extractedData, progress, inflight,
                   text, mapped, err, crashed, csv, exported>>

\* the logger receives a 'recognizing text' message
Logger ==
    /\ pc = "recognizing"
    /\ \E p \in ProgressValues : progress' = p
    /\ UNCHANGED <<isProcessing, error, extractedData, pc, inflight,
                   text, mapped, err, crashed, csv, exported>>

\* worker.recognize resolves with the recognized text
Recognized ==
    /\ pc = "recognizing"
    /\ \E t \in Texts : text' = Some(t)
    /\ pc' = "terminating"
    /\ UNCHANGED <<isProcessing, error, extractedData, progress, inflight,
                   mapped, err, crashed, csv, exported>>

\* a variant that does not reset the progress
CatchKeepsProgress(e) ==
    /\ err' = e
    /\ error' = GenericError
    /\ isProcessing' = FALSE
    /\ pc' = "idle"
    /\ inflight' = inflight - 1
    /\ UNCHANGED <<extractedData, progress, text, mapped, crashed, csv, exported>>

\* the catch block of processImage
Catch(e) ==
    /\ err' = e
    /\ error' = GenericError
    /\ isProcessing' = FALSE
    /\ progress' = 0
    /\ pc' = "idle"
    /\ inflight' = inflight - 1
    /\ UNCHANGED <<extractedData, text, mapped, crashed, csv, exported>>

\* an awaited call of the OCR collaborator rejects
WorkerFails ==
    /\ pc \in {"loading", "recognizing", "terminating"}
    /\ Catch("RecognitionFailure")

\* the three state updates that end a run whose table was built, and the
\* render that follows them
SetResult(t) ==
    /\ extractedData' = Some(ProcessedData(t))
    /\ mapped' = MappedRows(t)
    /\ isProcessing' = FALSE
    /\ progress' = 0
    /\ err' = ""
    /\ pc' = "idle"
    /\ inflight' = inflight - 1
    /\ crashed' = RenderThrows(extractedData')
    /\ UNCHANGED <<error, text, csv, exported>>

\* worker.terminate resolves and the text is processed
Terminated ==
    /\ pc = "terminating"
    /\ IF HeaderThrows(text.v) THEN Catch("TypeError") ELSE SetResult(text.v)

\* exportToCSV: returns at once without a table, throws a TypeError from
\* Object.keys(extractedData[0]) for an empty array, downloads otherwise
ExportToCSV ==
    IF extractedData.isNull
    THEN /\ exported' = "returned"
         /\ UNCHANGED <<isProcessing, error, extractedData, progress, pc, inflight,
                        text, mapped, err, crashed, csv>>
    ELSE IF Len(extractedData.v) = 0
    THEN /\ exported' = "TypeError"
         /\ UNCHANGED <<isProcessing, error, extractedData, progress, pc, inflight,
                        text, mapped, err, crashed, csv>>
    ELSE /\ csv' = Some(CsvContent(extractedData.v))
         /\ exported' = "downloaded"
         /\ UNCHANGED <<isProcessing, error, extractedData, progress, pc, inflight,
                        text, mapped, err, crashed>>

\* a click on the export button
ClickExport == ExportRendered /\ ExportToCSV

Next ==
    \/ HandleFileUpload
    \/ FileRead
    \/ WorkerReady
    \/ Logger
    \/ Recognized
    \/ WorkerFails
    \/ Terminated
    \/ ClickExport

Spec == Init /\ [][Next]_vars

(***************************************************************************)
(* exportToCSV as a function of the table it closes over: the state is the *)
(* one a run leaves when it has set extractedData (or the initial state),  *)
(* and the function is called directly.                                    *)
(***************************************************************************)
InitExport ==
    /\ isProcessing = FALSE
    /\ error = NoError
    /\ progress = 0
    /\ pc = "idle"
    /\ inflight = 0
    /\ err = ""
    /\ csv = Null
    /\ exported = "none"
    /\ \/ /\ text = Null
          /\ extractedData = Null
          /\ mapped = <<>>
       \/ \E t \in Texts :
            /\ ~HeaderThrows(t)
            /\ text = Some(t)
            /\ extractedData = Some(ProcessedData(t))
            /\ mapped = MappedRows(t)
    /\ crashed = RenderThrows(extractedData)

NextExport == ExportToCSV

SpecExport == InitExport /\ [][NextExport]_vars

(***************************************************************************)
(* Properties.                                                             *)
(***************************************************************************)
\* the last run got its text from the OCR calls and went on to build the table
RunProcessedText == pc = "idle" /\ ~text.isNull /\ err # "RecognitionFailure"

\* the last run ended by setting extractedData
RunSucceeded == pc = "idle" /\ ~text.isNull /\ err = "" /\ ~extractedData.isNull

\* the elements of a sequence
Range(q) == {q[i] : i \in 1..Len(q)}

\* a record one of whose values is a non-empty string
HasNonEmptyValue(row) == \E i \in 1..Len(row) : row[i].value # <<>>

\* the Tokens of a Line: its maximal runs of characters that are not white space
Tokens(line) ==
    LET starts == {i \in 1..Len(line) :
                     /\ ~IsWhitespace(line[i])
                     /\ (i = 1 \/ IsWhitespace(line[i-1]))}
        EndOf(i) == CHOOSE k \in i..Len(line) :
                     /\ \A j \in i..k : ~IsWhitespace(line[j])
                     /\ (k = Len(line) \/ IsWhitespace(line[k+1]))
        Nth(n) == CHOOSE i \in starts : Cardinality({j \in starts : j <= i}) = n
    IN  [n \in 1..Cardinality(starts) |-> SubSeq(line, Nth(n), EndOf(Nth(n)))]

\* the token at header position i, the empty string when the Line is shorter
TokenAt(t, i) == IF i <= Len(t) THEN t[i] ELSE <<>>

\* C1: whatever text a successful OCR run returns, the run ends with a table
\* and no error message, and with the empty table when the text has no Line.
C1_TableConstructionNeverFails ==
    RunProcessedText =>
        /\ error = NoError
        /\ ~extractedData.isNull
        /\ (Lines(text.v) = <<>> => extractedData.v = <<>>)

\* C2: an export called on a table with zero Records ends with the
\* EmptyTableError signal and produces no payload.
C2_ExportOfEmptyTableSignalsEmptyTableError ==
    (~extractedData.isNull /\ Len(extractedData.v) = 0 /\ exported # "none") =>
        (exported = "EmptyTableError" /\ csv.isNull)

\* a value in double quotes, each double quote in it doubled
CsvQuoted(value) ==
    LET RECURSIVE Doubled(_)
        Doubled(r) ==
            IF r = <<>> THEN <<>>
            ELSE (IF Head(r) = "\"" THEN <<"\"", "\"">> ELSE <<Head(r)>>)
                    \o Doubled(Tail(r))
    IN  <<"\"">> \o Doubled(value) \o <<"\"">>

\* the lines of a payload after its header line, each split into its fields,
\* for a table of the given rows and columns
PayloadRowsQuotedBy(data, Quote(_)) ==
    [n \in 1..Len(data) |->
        Join([i \in 1..Len(data[1]) |->
                 Quote(GetOrEmpty(data[n], data[1][i].key))], <<",">>)]

\* C3: in the payload every data value is wrapped in double quotes with each
\* double quote of the value doubled.
C3_ValuesQuotedByDoubling ==
    (~csv.isNull /\ ~extractedData.isNull /\ Len(extractedData.v) > 0) =>
        Tail(SplitChar(csv.v, "\n")) = PayloadRowsQuotedBy(extractedData.v, CsvQuoted)

\* C4: the first line of the payload, split on commas, is the HeaderKey
\* sequence derived from the first non-blank line of the text.
C4_PayloadHeaderIsHeaderKeys ==
    (~csv.isNull /\ RunSucceeded) =>
        SplitChar(SplitChar(csv.v, "\n")[1], ",") = Headers(text.v)

\* C5: a text with a header Line and at least one data Line gives a table
\* with at least one Record.
C5_HeaderAndDataLineGiveARecord ==
    (RunProcessedText /\ Len(Lines(text.v)) >= 2) =>
        (~extractedData.isNull /\ Len(extractedData.v) >= 1)

C7_RecordKeysAreHeaderKeys ==
    RunSucceeded =>
        \A n \in 1..Len(extractedData.v) :
            Range(ObjectKeys(extractedData.v[n])) = Range(Headers(text.v))

\* the positions of the rows that have a non-empty value
KeptPositions(rows) == {n \in 1..Len(rows) : HasNonEmptyValue(rows[n])}

\* C8: every Record of a held table has a non-empty value, and the table is
\* the mapped rows without those whose values are all empty, in their order.
C8_RecordsHaveAValueInLineOrder ==
    ~extractedData.isNull =>
        LET data == extractedData.v
            kept == KeptPositions(mapped)
        IN  /\ Len(data) = Cardinality(kept)
            /\ \A j \in 1..Len(data) :
                /\ HasNonEmptyValue(data[j])
                /\ \E n \in kept :
                    /\ Cardinality({m \in kept : m <= n}) = j
                    /\ data[j] = mapped[n]

\* a table of two Records with a dropped row between them
C8_Witness ==
    /\ ~extractedData.isNull
    /\ Len(extractedData.v) >= 2
    /\ \E n \in 2..(Len(mapped) - 1) :
        /\ ~HasNonEmptyValue(mapped[n])
        /\ HasNonEmptyValue(mapped[n-1])
        /\ HasNonEmptyValue(mapped[n+1])

\* C9: the step in which a run fails sets the generic message, turns
\* processing off, resets the progress and leaves no table; and processing
\* only ever starts with the submission of an image.
C9_FailureEndsTheRun ==
    [][ /\ (pc # "idle" /\ pc' = "idle" /\ err' = "RecognitionFailure") =>
            /\ error' = GenericError
            /\ ~isProcessing'
            /\ progress' = 0
            /\ extractedData' = extractedData
            /\ extractedData'.isNull
        /\ (~isProcessing /\ isProcessing') =>
            (UploadRendered /\ pc = "idle" /\ pc' = "reading")
      ]_vars

\* a run has failed after its text was recognized
C9_Witness ==
    /\ pc = "idle"
    /\ err = "RecognitionFailure"
    /\ ~text.isNull
    /\ error = GenericError
    /\ progress = 0

\* C10: at most one of processing, error message and table holds; a run is
\* in flight exactly while processing is on, and there is at most one; a
\* file can be submitted only when processing is off and no table is held.
C10_AtMostOneOfProcessingErrorTable ==
    /\ Cardinality({x \in {"processing", "error", "table"} :
            \/ x = "processing" /\ isProcessing
            \/ x = "error" /\ error # NoError
            \/ x = "table" /\ ~extractedData.isNull}) <= 1
    /\ inflight <= 1
    /\ isProcessing <=> inflight = 1
    /\ isProcessing <=> pc # "idle"
    /\ (ENABLED HandleFileUpload) => (~isProcessing /\ extractedData.isNull)

\* a second run is in progress after a failed one
C10_Witness ==
    /\ isProcessing
    /\ err # ""
    /\ progress > 0
    /\ error = NoError

====
